---- MODULE Spec2Model ----
(***************************************************************************)
(* A model of UFCPredictorv2.py: name resolution against the fighter list  *)
(* (get_fighter_profile_url), statistics extraction from a profile page    *)
(* (get_stats_from_profile) and the scoring done by main.                  *)
(*                                                                         *)
(* Text is a sequence of one-character strings, so that strip, lower,      *)
(* split, replace, startswith, int() and float() are computed character by *)
(* character as Python computes them.  A float is an exact rational        *)
(* <<numerator, denominator>>; round(x, 2) yields hundredths, and yields   *)
(* either neighbour when the exact value lies half way between two (there  *)
(* the binary representation decides).                                     *)
(***************************************************************************)
EXTENDS Integers, Sequences, FiniteSets, TLC

VARIABLES
    pc,                \* position in main
    fighter_name,      \* [1..2 -> text]: what input() returned
    list_response,     \* [1..2 -> response]: the site's answer to a list request
    lookup,            \* [1..2 -> result of get_fighter_profile_url]
    profile_response,  \* [1..2 -> response]: answer to the profile request
    fighter_data,      \* [1..2 -> dict returned by get_stats_from_profile]
    calc               \* the locals of main's analytics section

vars == <<pc, fighter_name, list_response, lookup, profile_response,
          fighter_data, calc>>

Fighters == {1, 2}

-----------------------------------------------------------------------------
(* Python str operations                                                   *)

\* str.strip() / get_text(strip=True) remove these at both ends
Whitespace == {" ", "\t", "\n"}

UpperCase == <<"A", "B", "C", "D", "E", "F", "G", "H", "I", "J", "K", "L", "M",
               "N", "O", "P", "Q", "R", "S", "T", "U", "V", "W", "X", "Y", "Z">>

LowerCase == <<"a", "b", "c", "d", "e", "f", "g", "h", "i", "j", "k", "l", "m",
               "n", "o", "p", "q", "r", "s", "t", "u", "v", "w", "x", "y", "z">>

IsUpper(c) == \E i \in DOMAIN UpperCase : UpperCase[i] = c

IsLower(c) == \E i \in DOMAIN LowerCase : LowerCase[i] = c

LowerChar(c) ==
    IF IsUpper(c)
    THEN LowerCase[CHOOSE i \in DOMAIN UpperCase : UpperCase[i] = c]
    ELSE c

UpperChar(c) ==
    IF IsLower(c)
    THEN UpperCase[CHOOSE i \in DOMAIN LowerCase : LowerCase[i] = c]
    ELSE c

\* str.lower()
lower(s) == [i \in DOMAIN s |-> LowerChar(s[i])]

\* str.title(): a letter is upper-cased when it follows a non-letter
title(s) ==
    [i \in DOMAIN s |->
        IF i > 1 /\ (IsUpper(s[i - 1]) \/ IsLower(s[i - 1]))
        THEN LowerChar(s[i])
        ELSE UpperChar(s[i])]

SetMin(S) == CHOOSE x \in S : \A y \in S : x <= y

SetMax(S) == CHOOSE x \in S : \A y \in S : x >= y

\* str.strip()
strip(s) ==
    LET keep == {i \in DOMAIN s : s[i] \notin Whitespace}
    IN  IF keep = {} THEN <<>> ELSE SubSeq(s, SetMin(keep), SetMax(keep))

\* str.split(sep) for a one-character separator: "" splits into [""]
RECURSIVE split(_, _)
split(s, sep) ==
    LET at == {i \in DOMAIN s : s[i] = sep}
    IN  IF at = {} THEN <<s>>
        ELSE LET i == SetMin(at)
             IN  <<SubSeq(s, 1, i - 1)>> \o split(SubSeq(s, i + 1, Len(s)), sep)

\* str.startswith(prefix)
startswith(s, prefix) ==
    Len(s) >= Len(prefix) /\ SubSeq(s, 1, Len(prefix)) = prefix

\* str.replace(old, ''): every non-overlapping occurrence, left to right
RECURSIVE remove(_, _)
remove(s, old) ==
    IF s = <<>> THEN <<>>
    ELSE IF startswith(s, old) THEN remove(SubSeq(s, Len(old) + 1, Len(s)), old)
    ELSE <<s[1]>> \o remove(Tail(s), old)

Last(seq) == seq[Len(seq)]

\* every text over the characters chars of length at most n
RECURSIVE Texts(_, _)
Texts(chars, n) ==
    IF n = 0 THEN {<<>>}
    ELSE LET shorter == Texts(chars, n - 1)
         IN  shorter \cup {Append(t, c) : t \in shorter, c \in chars}

\* every sequence over the set S of length at most n
RECURSIVE SeqsUpTo(_, _)
SeqsUpTo(S, n) ==
    IF n = 0 THEN {<<>>}
    ELSE LET shorter == SeqsUpTo(S, n - 1)
         IN  shorter \cup {Append(t, x) : t \in shorter, x \in S}

-----------------------------------------------------------------------------
(* get_fighter_profile_url                                                 *)

None == "None"

\* a <td>: whether it holds an <a>, the link's text and its href attribute
Cell(link, text, href) == [link |-> link, text |-> text, href |-> href]

\* the lower-cased "first last" of a row, as lines 72-74 build it
full_name(row) ==
    lower(strip(row[1].text)) \o <<" ">> \o lower(strip(row[2].text))

\* lines 61-84: the first row with two name links whose full name is the
\* search name gives its first link's href
RECURSIVE scan_rows(_, _)
scan_rows(rows, search_name) ==
    IF rows = <<>> THEN [url |-> None, msg |-> "not_found"]
    ELSE LET cols == Head(rows)
         IN  IF /\ Len(cols) > 1
                /\ cols[1].link
                /\ cols[2].link
                /\ full_name(cols) = search_name
             THEN [url |-> cols[1].href, msg |-> "found"]
             ELSE scan_rows(Tail(rows), search_name)

\* the whole function; response is what requests.get gives for the list page
get_fighter_profile_url(name, response) ==
    LET search_name == lower(strip(name))
        last_word   == Last(split(name, " "))
    IN  IF last_word = <<>>
        THEN [url |-> None, msg |-> "invalid_name", requested |-> <<>>]
        ELSE LET last_name_letter == LowerChar(last_word[1])
             IN  IF response.status # "ok"
                 THEN [url |-> None, msg |-> "fetch_error",
                       requested |-> <<last_name_letter>>]
                 ELSE IF ~response.has_tbody
                 THEN [url |-> None, msg |-> "no_table",
                       requested |-> <<last_name_letter>>]
                 ELSE scan_rows(response.rows, search_name)
                          @@ [requested |-> <<last_name_letter>>]

-----------------------------------------------------------------------------
(* Numbers                                                                 *)

Digits == <<"0", "1", "2", "3", "4", "5", "6", "7", "8", "9">>

IsDigit(c) == \E i \in DOMAIN Digits : Digits[i] = c

DigitValue(c) == (CHOOSE i \in DOMAIN Digits : Digits[i] = c) - 1

\* the value of a run of decimal digits
RECURSIVE DecimalValue(_)
DecimalValue(ds) ==
    IF ds = <<>> THEN 0
    ELSE 10 * DecimalValue(SubSeq(ds, 1, Len(ds) - 1)) + DigitValue(Last(ds))

RECURSIVE Pow10(_)
Pow10(n) == IF n = 0 THEN 1 ELSE 10 * Pow10(n - 1)

Abs(n) == IF n < 0 THEN -n ELSE n

\* the element of a one-element set; {e : v \in {a}} evaluates a once and
\* names its value v
The(S) == CHOOSE v \in S : TRUE

\* Euclid's algorithm
RECURSIVE GCD(_, _)
GCD(a, b) ==
    IF b = 0 THEN a ELSE The({GCD(y, x % y) : x \in {a}, y \in {b}})

Reduce(n, d, g) == <<n \div g, d \div g>>

\* the rational n/d in lowest terms with a positive denominator
Rat(n, d) ==
    The({Reduce(x, y, IF y < 0 THEN -GCD(Abs(x), Abs(y))
                               ELSE GCD(Abs(x), Abs(y))) :
            x \in {n}, y \in {d}})

RInt(n) == <<n, 1>>

RAdd(x, y) ==
    The({Rat(a[1] * b[2] + b[1] * a[2], a[2] * b[2]) : a \in {x}, b \in {y}})

RSub(x, y) ==
    The({Rat(a[1] * b[2] - b[1] * a[2], a[2] * b[2]) : a \in {x}, b \in {y}})

\* cross-reduced first, so that the products stay small
CrossMul(x, y) ==
    The({<<a[1] * b[1], a[2] * b[2]>> :
            a \in {Rat(x[1], y[2])}, b \in {Rat(y[1], x[2])}})

RMul(x, y) == The({CrossMul(a, b) : a \in {x}, b \in {y}})

RDiv(x, y) == The({CrossMul(a, Rat(b[2], b[1])) : a \in {x}, b \in {y}})

RZero == <<0, 1>>

RLess(x, y) == The({a[1] * b[2] < b[1] * a[2] : a \in {x}, b \in {y}})

\* the results int(s) and float(s) can have: a value or ValueError
Value(v) == [ok |-> TRUE, val |-> v]

ValueError == [ok |-> FALSE, val |-> 0]

Unsigned(t) == IF t # <<>> /\ t[1] \in {"+", "-"} THEN Tail(t) ELSE t

Sign(t) == IF t # <<>> /\ t[1] = "-" THEN -1 ELSE 1

\* int(s): surrounding whitespace, an optional sign, one or more digits
\* (digit-group underscores are not modelled)
int(s) ==
    LET t    == strip(s)
        body == Unsigned(t)
    IN  IF body # <<>> /\ \A i \in DOMAIN body : IsDigit(body[i])
        THEN Value(Sign(t) * DecimalValue(body))
        ELSE ValueError

\* float(s): surrounding whitespace, an optional sign, digits with at most
\* one point and at least one digit (exponents, inf and nan are not modelled)
float(s) ==
    LET t     == strip(s)
        body  == Unsigned(t)
        parts == split(body, ".")
        whole == parts[1]
        frac  == IF Len(parts) > 1 THEN parts[2] ELSE <<>>
    IN  IF /\ Len(parts) <= 2
           /\ whole \o frac # <<>>
           /\ \A i \in DOMAIN whole : IsDigit(whole[i])
           /\ \A i \in DOMAIN frac : IsDigit(frac[i])
        THEN Value(Rat(Sign(t) * DecimalValue(whole \o frac), Pow10(Len(frac))))
        ELSE [ok |-> FALSE, val |-> RZero]

-----------------------------------------------------------------------------
(* get_stats_from_profile                                                  *)

RecordPrefix == <<"R", "e", "c", "o", "r", "d", ":", " ">>

SLpMLabel == <<"S", "L", "p", "M", ":">>

StrDefLabel == <<"S", "t", "r", ".", " ", "D", "e", "f", ":">>

Placeholder == <<"-", "-">>

\* lines 91, 99, 160: the dict returned when nothing could be read
default_stats(name) ==
    [Name |-> name, Wins |-> 0, Losses |-> 0, Draws |-> 0,
     SLpM |-> RZero, Str_Def |-> 0]

\* line 107: the record span's text without 'Record: '
record_text(span) == remove(strip(span), RecordPrefix)

\* draws_string without the split: the whole third part goes to int()
draws_string_whole(part) == part

\* line 115: the draws part up to its first space, "0 (1 NC)" -> "0"
draws_string(part) == split(part, " ")[1]

\* lines 130 and 138: the text after the last colon, trimmed
after_colon(text) == strip(Last(split(text, ":")))

\* is_placeholder without the "--" check
never_placeholder(value_text) == FALSE

\* lines 132 and 140: the "--" the site shows for an empty statistic
is_placeholder(value_text) == value_text = Placeholder

\* lines 126-142: the loop over the <li> items; acc holds slpm, str_def and
\* whether float() or int() raised
RECURSIVE scan_items(_, _)
scan_items(items, acc) ==
    IF items = <<>> \/ acc.raised THEN acc
    ELSE LET text == strip(Head(items))
         IN  IF startswith(text, SLpMLabel)
             THEN LET slpm_text == after_colon(text)
                      parsed    == float(slpm_text)
                  IN  IF is_placeholder(slpm_text)
                      THEN scan_items(Tail(items), acc)
                      ELSE IF parsed.ok
                      THEN scan_items(Tail(items), [acc EXCEPT !.slpm = parsed.val])
                      ELSE [acc EXCEPT !.raised = TRUE]
             ELSE IF startswith(text, StrDefLabel)
             THEN LET str_def_text == remove(after_colon(text), <<"%">>)
                      parsed       == int(str_def_text)
                  IN  IF is_placeholder(str_def_text)
                      THEN scan_items(Tail(items), acc)
                      ELSE IF parsed.ok
                      THEN scan_items(Tail(items), [acc EXCEPT !.str_def = parsed.val])
                      ELSE [acc EXCEPT !.raised = TRUE]
             ELSE scan_items(Tail(items), acc)

\* lines 103-156, the body of the try: raised when any statement raised
\* (AttributeError on a missing span, IndexError on a missing part,
\* ValueError from int() or float())
parse_profile(page, name) ==
    LET parts  == split(record_text(page.record_span), "-")
        wins   == int(parts[1])
        losses == int(parts[2])
        draws  == int(draws_string(parts[3]))
        stats  == scan_items(page.stat_items,
                             [slpm |-> RZero, str_def |-> 0, raised |-> FALSE])
    IN  IF \/ ~page.has_record_span
           \/ ~wins.ok
           \/ Len(parts) < 2
           \/ ~losses.ok
           \/ Len(parts) < 3
           \/ ~draws.ok
           \/ stats.raised
        THEN [raised |-> TRUE, data |-> default_stats(name)]
        ELSE [raised |-> FALSE,
              data |-> [Name |-> name, Wins |-> wins.val, Losses |-> losses.val,
                        Draws |-> draws.val, SLpM |-> stats.slpm,
                        Str_Def |-> stats.str_def]]

\* except_Exception without the handler: the exception leaves the function
reraise(result, name) == result

\* line 158: except Exception returns the default dict
except_Exception(result, name) ==
    IF result.raised
    THEN [raised |-> FALSE, data |-> default_stats(name)]
    ELSE result

\* get_stats_from_profile without raise_for_status: the body of a failed
\* response is parsed like any other
get_stats_unchecked_status(profile_url, name, response) ==
    IF profile_url = None
    THEN [raised |-> FALSE, data |-> default_stats(name)]
    ELSE except_Exception(parse_profile(response, name), name)

\* the whole function; response is what requests.get gives for the profile.
\* raised tells whether an exception leaves the function.
get_stats_from_profile(profile_url, name, response) ==
    IF profile_url = None
    THEN [raised |-> FALSE, data |-> default_stats(name)]
    ELSE IF response.status # "ok"
    THEN [raised |-> FALSE, data |-> default_stats(name)]
    ELSE except_Exception(parse_profile(response, name), name)

-----------------------------------------------------------------------------
(* main: the analytics of lines 196-236                                    *)

PerfectTie == <<"It's a perfect tie!">>

Total_Fights(d) == d.Wins + d.Losses + d.Draws

\* lines 197-199: np.where(Total_Fights > 0, Wins / Total_Fights * 100, 0)
Win_Rate(d) ==
    IF Total_Fights(d) > 0
    THEN RMul(Rat(d.Wins, Total_Fights(d)), RInt(100))
    ELSE RZero

\* effective_strikes keeping the blocked share instead of the landed one
effective_strikes_blocked(slpm, opponent_str_def) ==
    RMul(slpm, Rat(opponent_str_def, 100))

\* lines 204-208: a fighter's SLpM discounted by the opponent's Str_Def
effective_strikes(slpm, opponent_str_def) ==
    RMul(slpm, RSub(RInt(1), Rat(opponent_str_def, 100)))

\* lines 215-220
strike_ratio(own, total_effective_strikes) ==
    IF total_effective_strikes = RZero
    THEN Rat(1, 2)
    ELSE RDiv(own, total_effective_strikes)

weight_win_rate == Rat(6, 10)

weight_striking == Rat(4, 10)

\* lines 225-226
prediction_score(win_rate, ratio) ==
    RAdd(RMul(win_rate, weight_win_rate),
         RMul(RMul(ratio, RInt(100)), weight_striking))

\* the hundredths nearest to n/d, and either neighbour at a tie
Nearest(n, d) ==
    LET lo  == (100 * n) \div d
        rem == 100 * n - lo * d
    IN  IF 2 * rem < d THEN {lo}
        ELSE IF 2 * rem > d THEN {lo + 1}
        ELSE {lo, lo + 1}

\* round(x, 2) in hundredths
round2(x) == The({Nearest(v[1], v[2]) : v \in {x}})

\* lines 234-235
likelihood(score, total_score) ==
    round2(RMul(RDiv(score, total_score), RInt(100)))

\* predicted_winner with >= for >
predicted_winner_ge(f1_likelihood, f2_likelihood, name1, name2) ==
    IF f1_likelihood >= f2_likelihood THEN name1 ELSE name2

\* line 236
predicted_winner(f1_likelihood, f2_likelihood, name1, name2) ==
    IF f1_likelihood > f2_likelihood THEN name1 ELSE name2

NoCalc ==
    [f1_effective_strikes |-> RZero, f2_effective_strikes |-> RZero,
     f1_prediction_score |-> RZero, f2_prediction_score |-> RZero,
     total_score |-> RZero, f1_likelihood |-> 0, f2_likelihood |-> 0,
     predicted_winner |-> <<>>]

\* lines 229-236: what the locals can be once the scores are known
outcomes(e1, e2, p1, p2, total_score, name1, name2) ==
    LET base == [NoCalc EXCEPT !.f1_effective_strikes = e1,
                               !.f2_effective_strikes = e2,
                               !.f1_prediction_score = p1,
                               !.f2_prediction_score = p2,
                               !.total_score = total_score]
    IN  IF total_score = RZero
        THEN {[base EXCEPT !.f1_likelihood = 5000, !.f2_likelihood = 5000,
                           !.predicted_winner = PerfectTie]}
        ELSE {[base EXCEPT !.f1_likelihood = l1, !.f2_likelihood = l2,
                           !.predicted_winner =
                               predicted_winner(l1, l2, name1, name2)] :
                 l1 \in likelihood(p1, total_score),
                 l2 \in likelihood(p2, total_score)}

-----------------------------------------------------------------------------
(* main: the steps                                                         *)

NoListResponse == [status |-> "none", has_tbody |-> FALSE, rows |-> <<>>]

NoProfileResponse ==
    [status |-> "none", has_record_span |-> FALSE, record_span |-> <<>>,
     stat_items |-> <<>>]

NoLookup == [url |-> None, msg |-> "none", requested |-> <<>>]

UrlStep == [i \in Fighters |-> IF i = 1 THEN "url1" ELSE "url2"]

StatsStep == [i \in Fighters |-> IF i = 1 THEN "stats1" ELSE "stats2"]

AfterStats == [i \in Fighters |-> IF i = 1 THEN "url2" ELSE "score"]

\* line 179, 183: the name handed to get_stats_from_profile
display_name(i) == title(strip(fighter_name[i]))

Init ==
    /\ pc = "input"
    /\ fighter_name = [i \in Fighters |-> <<>>]
    /\ list_response = [i \in Fighters |-> NoListResponse]
    /\ lookup = [i \in Fighters |-> NoLookup]
    /\ profile_response = [i \in Fighters |-> NoProfileResponse]
    /\ fighter_data = [i \in Fighters |-> default_stats(<<>>)]
    /\ calc = NoCalc

\* lines 172-173
Input(names) ==
    /\ pc = "input"
    /\ fighter_name' \in [Fighters -> names]
    /\ pc' = "url1"
    /\ UNCHANGED <<list_response, lookup, profile_response, fighter_data, calc>>

\* lines 177, 181: get_fighter_profile_url for fighter i; response is what the
\* site answers to a list request (lookup.requested tells whether one was made)
GetUrl(i, response) ==
    /\ pc = UrlStep[i]
    /\ LET result == get_fighter_profile_url(fighter_name[i], response)
       IN  /\ lookup' = [lookup EXCEPT ![i] = result]
           /\ list_response' = [list_response EXCEPT ![i] = response]
    /\ pc' = StatsStep[i]
    /\ UNCHANGED <<fighter_name, profile_response, fighter_data, calc>>

\* lines 179, 183: get_stats_from_profile for fighter i, the profile request
\* answered by response; an exception leaving it ends the run
GetStats(i, response) ==
    /\ pc = StatsStep[i]
    /\ LET result == get_stats_from_profile(lookup[i].url, display_name(i), response)
       IN  /\ profile_response' =
                  [profile_response EXCEPT
                      ![i] = IF lookup[i].url = None THEN NoProfileResponse
                             ELSE response]
           /\ IF result.raised
              THEN pc' = "aborted" /\ UNCHANGED fighter_data
              ELSE /\ pc' = AfterStats[i]
                   /\ fighter_data' = [fighter_data EXCEPT ![i] = result.data]
    /\ UNCHANGED <<fighter_name, list_response, lookup, calc>>

\* lines 187-236; each \E over a one-element set names a local of main
Score ==
    /\ pc = "score"
    /\ \E d1 \in {fighter_data[1]}, d2 \in {fighter_data[2]} :
       \E e1 \in {effective_strikes(d1.SLpM, d2.Str_Def)},
          e2 \in {effective_strikes(d2.SLpM, d1.Str_Def)} :
       \E total \in {RAdd(e1, e2)} :
       \E r1 \in {strike_ratio(e1, total)}, r2 \in {strike_ratio(e2, total)},
          w1 \in {Win_Rate(d1)}, w2 \in {Win_Rate(d2)} :
       \E p1 \in {prediction_score(w1, r1)}, p2 \in {prediction_score(w2, r2)} :
       \E total_score \in {RAdd(p1, p2)} :
           calc' \in outcomes(e1, e2, p1, p2, total_score, d1.Name, d2.Name)
    /\ pc' = "report"
    /\ UNCHANGED <<fighter_name, list_response, lookup, profile_response,
                   fighter_data>>

\* lines 239-272: the chart and the printed report
Report ==
    /\ pc = "report"
    /\ pc' = "done"
    /\ UNCHANGED <<fighter_name, list_response, lookup, profile_response,
                   fighter_data, calc>>

-----------------------------------------------------------------------------
(* The pages the two requests can be answered with                         *)

ListError == [status |-> "error", has_tbody |-> FALSE, rows |-> <<>>]

ListNoTable == [status |-> "ok", has_tbody |-> FALSE, rows |-> <<>>]

ListPage(rows) == [status |-> "ok", has_tbody |-> TRUE, rows |-> rows]

\* rows of the fighter table: first name, last name, further columns
RowAB == <<Cell(TRUE, <<"a">>, "u1"), Cell(TRUE, <<"b">>, "u1"),
           Cell(FALSE, <<"x">>, None)>>

\* the same name as RowAB after strip and lower, another profile
RowAB2 == <<Cell(TRUE, <<"A">>, "u2"), Cell(TRUE, <<" ", "B", " ">>, "u2")>>

RowBA == <<Cell(TRUE, <<"b">>, "u3"), Cell(TRUE, <<"a">>, "u3")>>

\* a name that only starts like "a b"
RowABB == <<Cell(TRUE, <<"a">>, "u4"), Cell(TRUE, <<"b", "b">>, "u4")>>

RowOneColumn == <<Cell(TRUE, <<"a">>, "u5")>>

RowNoFirstLink == <<Cell(FALSE, <<"a">>, None), Cell(TRUE, <<"b">>, "u6")>>

\* links without an href attribute: .get('href') is None
RowNoHref == <<Cell(TRUE, <<"a">>, None), Cell(TRUE, <<"b">>, None)>>

ProfilePage(span, items) ==
    [status |-> "ok", has_record_span |-> TRUE, record_span |-> span,
     stat_items |-> items]

ProfileNoSpan(items) ==
    [status |-> "ok", has_record_span |-> FALSE, record_span |-> <<>>,
     stat_items |-> items]

\* the same body under a failed request (raise_for_status raises)
ProfileError(page) == [page EXCEPT !.status = "error"]

Record(body) == RecordPrefix \o body

SLpMLine(value) == SLpMLabel \o value

StrDefLine(value) == StrDefLabel \o value

OtherLine == <<"R", "e", "a", "c", "h", ":", "7", "2">>

PageA ==
    ProfilePage(Record(<<"2", "7", "-", "1", "-", "0">>), <<OtherLine, SLpMLine(<<"5", ".", "2", "0">>), StrDefLine(<<"6", "0", "%">>)>>)

PageB ==
    ProfilePage(Record(<<"2", "0", "-", "5", "-", "0">>), <<SLpMLine(<<" ", "4", ".", "0">>), StrDefLine(<<" ", "5", "0", "%">>), OtherLine>>)

PageNoContest ==
    ProfilePage(<<" ">> \o Record(<<"1", "1", "-", "3", "-", "0", " ", "(", "1", " ", "N", "C", ")">>) \o <<"\n">>,
                <<SLpMLine(Placeholder), StrDefLine(<<"6", "1", "%">>)>>)

PageDebut ==
    ProfilePage(Record(<<"0", "-", "0", "-", "0">>), <<SLpMLine(Placeholder), StrDefLine(Placeholder)>>)

PageGarbageRecord ==
    ProfilePage(Record(<<"g", "a", "r", "b", "a", "g", "e">>), <<SLpMLine(<<"5", ".", "2", "0">>), StrDefLine(<<"6", "0", "%">>)>>)

PageGarbageStat ==
    ProfilePage(Record(<<"2", "7", "-", "1", "-", "0">>), <<SLpMLine(<<"n", "/", "a">>), StrDefLine(<<"6", "0", "%">>)>>)

PageNoRecord == ProfileNoSpan(<<SLpMLine(<<"5", ".", "2", "0">>), StrDefLine(<<"6", "0", "%">>)>>)

-----------------------------------------------------------------------------
(* Spec: one run of main                                                   *)

RunNames == {<<"a", " ", "b">>, <<"A", " ", "b", " ">>, <<" ", "b", " ", "A">>, <<>>}

RunListResponses == {ListError, ListNoTable, ListPage(<<RowBA, RowAB, RowAB2>>)}

RunProfileResponses ==
    {ProfileError(PageA), PageA, PageB, PageNoContest, PageDebut,
     PageGarbageRecord, PageGarbageStat, PageNoRecord}

GetInput == Input(RunNames)

GetUrl1 == pc = "url1" /\ \E response \in RunListResponses : GetUrl(1, response)

GetStats1 ==
    pc = "stats1" /\ \E response \in RunProfileResponses : GetStats(1, response)

GetUrl2 == pc = "url2" /\ \E response \in RunListResponses : GetUrl(2, response)

GetStats2 ==
    pc = "stats2" /\ \E response \in RunProfileResponses : GetStats(2, response)

Next == GetInput \/ GetUrl1 \/ GetStats1 \/ GetUrl2 \/ GetStats2 \/ Score \/ Report

Spec == Init /\ [][Next]_vars

\* main is straight-line code: every step that can be taken is taken
FairSpec == Spec /\ WF_vars(Next)

-----------------------------------------------------------------------------
(* SpecResolve: get_fighter_profile_url on every short name and list page  *)

MaxNameLen == 4

MaxRoster == 2

NameChars == {" ", "\t", "a", "A", "b"}

ResolveNames == Texts(NameChars, MaxNameLen)

ResolveRows ==
    {RowAB, RowAB2, RowBA, RowABB, RowOneColumn, RowNoFirstLink, RowNoHref}

ResolveListResponses ==
    {ListError, ListNoTable}
        \cup {ListPage(rows) : rows \in SeqsUpTo(ResolveRows, MaxRoster)}

InitResolve ==
    /\ pc = "url1"
    /\ fighter_name \in {[i \in Fighters |-> IF i = 1 THEN name ELSE <<>>] :
                            name \in ResolveNames}
    /\ list_response = [i \in Fighters |-> NoListResponse]
    /\ lookup = [i \in Fighters |-> NoLookup]
    /\ profile_response = [i \in Fighters |-> NoProfileResponse]
    /\ fighter_data = [i \in Fighters |-> default_stats(<<>>)]
    /\ calc = NoCalc

Resolve ==
    pc = "url1" /\ \E response \in ResolveListResponses : GetUrl(1, response)

NextResolve == Resolve

SpecResolve == InitResolve /\ [][NextResolve]_vars

-----------------------------------------------------------------------------
(* SpecExtract: get_stats_from_profile on generated profile pages          *)

MaxSegs == 4

MaxItems == 2

\* what can stand between the dashes of a record
SegTexts == {<<>>, <<"1">>, <<"2", "7">>, <<"x">>, <<"0", " ", "(", "1", " ", "N", "C", ")">>}

RECURSIVE Join(_, _)
Join(segs, sep) ==
    IF Len(segs) = 1 THEN segs[1]
    ELSE segs[1] \o <<sep>> \o Join(Tail(segs), sep)

ExtractSpans ==
    {Record(Join(segs, "-")) : segs \in SeqsUpTo(SegTexts, MaxSegs) \ {<<>>}}

FewSpans ==
    {Record(<<"2", "7", "-", "1", "-", "0">>), <<" ">> \o Record(<<"1", "1", "-", "3", "-", "0", " ", "(", "1", " ", "N", "C", ")">>) \o <<"\n">>,
     Record(<<"g", "a", "r", "b", "a", "g", "e">>), <<"1", "-", "1", "-", "1">>}

SLpMValues == {<<"5", ".", "2", "0">>, <<" ", "4", ".", "0">>, Placeholder, <<"n", "/", "a">>, <<"-", "1", ".", "5">>, <<>>}

StrDefValues == {<<"6", "0", "%">>, <<" ", "5", "0", "%">>, Placeholder, <<"n", "/", "a">>, <<"1", "5", "0", "%">>, <<"-", "5", "%">>, <<>>}

ExtractLines ==
    {SLpMLine(v) : v \in SLpMValues} \cup {StrDefLine(v) : v \in StrDefValues}
        \cup {OtherLine}

ExtractItems == SeqsUpTo(ExtractLines, MaxItems)

FewItems ==
    {<<>>, <<SLpMLine(<<"5", ".", "2", "0">>), StrDefLine(<<"6", "0", "%">>)>>,
     <<SLpMLine(Placeholder), StrDefLine(Placeholder)>>}

\* every generated record with a few stat lists, and a few records with
\* every generated stat list; each both answered and failed
ExtractPages ==
    {ProfilePage(span, items) : span \in ExtractSpans, items \in FewItems}
        \cup {ProfilePage(span, items) : span \in FewSpans, items \in ExtractItems}
        \cup {ProfileNoSpan(items) : items \in ExtractItems}

ExtractProfileResponses ==
    ExtractPages \cup {ProfileError(page) : page \in ExtractPages}

\* after get_fighter_profile_url returned for fighter 1: found or not found
InitExtract ==
    /\ pc = "stats1"
    /\ \E name \in {<<"a", " ", "b">>, <<"a", " ", "b", "b">>} :
          /\ fighter_name = [i \in Fighters |-> IF i = 1 THEN name ELSE <<"a", " ", "b">>]
          /\ lookup = [i \in Fighters |->
                          IF i = 1
                          THEN get_fighter_profile_url(name, ListPage(<<RowABB>>))
                          ELSE NoLookup]
    /\ list_response = [i \in Fighters |->
                           IF i = 1 THEN ListPage(<<RowABB>>) ELSE NoListResponse]
    /\ profile_response = [i \in Fighters |-> NoProfileResponse]
    /\ fighter_data = [i \in Fighters |-> default_stats(<<>>)]
    /\ calc = NoCalc

Extract ==
    pc = "stats1" /\ \E response \in ExtractProfileResponses : GetStats(1, response)

NextExtract == Extract

SpecExtract == InitExtract /\ [][NextExtract]_vars

-----------------------------------------------------------------------------
(* Properties of get_fighter_profile_url, checked under SpecResolve        *)

Resolved == pc = "stats1"

\* a row that carries a candidate: two columns, each with a name link
IsCandidate(row) == Len(row) > 1 /\ row[1].link /\ row[2].link

\* the roster a list response amounts to; a failed request or a page
\* without a table is the empty roster.  A candidate is
\* <<firstName, lastName, locator>>.
Roster(response) ==
    IF response.status = "ok" /\ response.has_tbody
    THEN [i \in DOMAIN SelectSeq(response.rows, IsCandidate) |->
             LET row == SelectSeq(response.rows, IsCandidate)[i]
             IN  <<strip(row[1].text), strip(row[2].text), row[1].href>>]
    ELSE <<>>

\* the locator of the first candidate whose lower-cased "first last" is the
\* trimmed, lower-cased input, None when there is none
FirstExactMatch(name, roster) ==
    LET wanted == lower(strip(name))
        hits   == {i \in DOMAIN roster :
                      lower(roster[i][1]) \o <<" ">> \o lower(roster[i][2]) = wanted}
    IN  IF hits = {} THEN None ELSE roster[SetMin(hits)][3]

\* C1: for every roster and every input name, resolve returns the locator
\* of the first candidate in roster order whose lower-cased "first last"
\* equals the trimmed, lower-cased input, and unresolved when there is none.
C1_ExactMatchResolves ==
    Resolved =>
        lookup[1].url = FirstExactMatch(fighter_name[1], Roster(list_response[1]))

\* the last space-separated segment of the trimmed input is empty
TrimmedHasNoSurname(name) == Last(split(strip(name), " ")) = <<>>

\* C10: the invalid-name outcome is reported exactly when the trimmed input
\* has an empty last space-separated segment, then without any list
\* request; an input that differs from a valid name only by surrounding
\* whitespace is resolved like the valid name.
C10_InvalidDecidedOnTrimmed ==
    Resolved =>
        /\ lookup[1].msg = "invalid_name" <=> TrimmedHasNoSurname(fighter_name[1])
        /\ lookup[1].msg = "invalid_name" => lookup[1].requested = <<>>
        /\ ~TrimmedHasNoSurname(fighter_name[1]) =>
               lookup[1].url =
                   get_fighter_profile_url(strip(fighter_name[1]),
                                           list_response[1]).url

-----------------------------------------------------------------------------
(* Properties of get_stats_from_profile, checked under SpecExtract         *)

Extracted == pc = "url2"

\* the profile page was fetched and answered
Answered == lookup[1].url # None /\ profile_response[1].status = "ok"

\* the five numeric fields are zero
IsZero(d) ==
    /\ d.Wins = 0
    /\ d.Losses = 0
    /\ d.Draws = 0
    /\ d.SLpM = RZero
    /\ d.Str_Def = 0

\* C3: every record extract returns has wins, losses and draws >= 0,
\* strikesLandedPerMinute >= 0 and strikeDefensePercent in 0..100.
C3_StatsInRange ==
    Extracted =>
        /\ fighter_data[1].Wins >= 0
        /\ fighter_data[1].Losses >= 0
        /\ fighter_data[1].Draws >= 0
        /\ ~RLess(fighter_data[1].SLpM, RZero)
        /\ fighter_data[1].Str_Def \in 0..100

\* the decimal digits of a natural number
RECURSIVE Decimal(_)
Decimal(n) ==
    IF n < 10 THEN <<Digits[n + 1]>>
    ELSE Decimal(n \div 10) \o <<Digits[(n % 10) + 1]>>

RecordCounts == {0, 1, 3, 11, 27}

\* "Record: W-L-D" and "Record: W-L-D (k NC)" with the counts they state
WellFormedRecords ==
    LET plain(W, L, D) ==
            Record(Decimal(W) \o <<"-">> \o Decimal(L) \o <<"-">> \o Decimal(D))
    IN  {[text |-> plain(W, L, D), W |-> W, L |-> L, D |-> D] :
            W \in RecordCounts, L \in RecordCounts, D \in RecordCounts}
        \cup
        {[text |-> plain(W, L, D) \o <<" ", "(">> \o Decimal(k) \o <<" ", "N", "C", ")">>,
          W |-> W, L |-> L, D |-> D] :
            W \in RecordCounts, L \in RecordCounts, D \in RecordCounts,
            k \in {1, 2}}

\* the record field as the page shows it
ShownRecord(page) == strip(page.record_span)

HasRecord(d, f) == d.Wins = f.W /\ d.Losses = f.L /\ d.Draws = f.D

\* the segments of the record text between dashes
Segments(page) == split(remove(ShownRecord(page), RecordPrefix), "-")

NonNumeric(segment) == ~int(segment).ok

\* the value a labelled stat line carries
LineValue(line, label) ==
    IF label = StrDefLabel
    THEN remove(strip(Last(split(strip(line), ":"))), <<"%">>)
    ELSE strip(Last(split(strip(line), ":")))

Labelled(page, label) ==
    {i \in DOMAIN page.stat_items : startswith(strip(page.stat_items[i]), label)}

Parses(value, label) ==
    IF label = StrDefLabel THEN int(value).ok ELSE float(value).ok

\* line i carries the label with a value that is neither "--" nor a number
Unparseable(page, i, label) ==
    /\ i \in Labelled(page, label)
    /\ LineValue(page.stat_items[i], label) # Placeholder
    /\ ~Parses(LineValue(page.stat_items[i], label), label)

SomeUnparseable(page) ==
    \E i \in DOMAIN page.stat_items :
        Unparseable(page, i, SLpMLabel) \/ Unparseable(page, i, StrDefLabel)

\* the well-formed records that read as the page's record field
Stated(page) ==
    IF page.has_record_span
    THEN LET shown == ShownRecord(page)
         IN  {f \in WellFormedRecords : f.text = shown}
    ELSE {}

\* C4 as claimed: a well-formed record field gives its W, L and D, the NC
\* annotation ignored; a record text that is missing, has a non-numeric
\* segment or does not split into exactly three segments gives the
\* zero-default record.
C4_RecordParsing ==
    (Extracted /\ Answered) =>
        LET page == profile_response[1]
            segs == Segments(page)
        IN  /\ \A f \in Stated(page) : HasRecord(fighter_data[1], f)
            /\ ( \/ ~page.has_record_span
                 \/ Len(segs) # 3
                 \/ NonNumeric(segs[1])
                 \/ NonNumeric(segs[2])
                 \/ NonNumeric(split(segs[3], " ")[1]) )
                   => IsZero(fighter_data[1])

\* C4 amended: a well-formed record field gives its W, L and D, the NC
\* annotation ignored, provided no SLpM or Str. Def line carries an
\* unparseable value; a record text that is missing, splits into fewer than
\* three segments, or whose first segment, second segment or leading token
\* of the third segment is not an integer gives the zero-default record.
C4_RecordParsingAmended ==
    (Extracted /\ Answered) =>
        LET page == profile_response[1]
            segs == Segments(page)
        IN  /\ ~SomeUnparseable(page) =>
                   \A f \in Stated(page) : HasRecord(fighter_data[1], f)
            /\ ( \/ ~page.has_record_span
                 \/ Len(segs) < 3
                 \/ NonNumeric(segs[1])
                 \/ NonNumeric(segs[2])
                 \/ NonNumeric(split(segs[3], " ")[1]) )
                   => IsZero(fighter_data[1])

\* a record with a no-contest annotation was read
C4_Witness ==
    /\ Extracted
    /\ Answered
    /\ profile_response[1].has_record_span
    /\ ShownRecord(profile_response[1]) = Record(<<"1", "1", "-", "3", "-", "0", " ", "(", "1", " ", "N", "C", ")">>)
    /\ fighter_data[1].Wins = 11
    /\ fighter_data[1].Losses = 3
    /\ fighter_data[1].Draws = 0

\* C7: extract returns the all-zero record with the caller's name both when
\* the locator is none and when fetching the profile fails.
C7_NoDetailTextGivesDefault ==
    (Extracted /\ ~Answered) =>
        fighter_data[1] =
            [Name |-> display_name(1), Wins |-> 0, Losses |-> 0, Draws |-> 0,
             SLpM |-> <<0, 1>>, Str_Def |-> 0]

\* the profile request of a resolved fighter failed, though its body holds
\* a record
C7_Witness ==
    /\ Extracted
    /\ lookup[1].url # None
    /\ profile_response[1].status = "error"
    /\ profile_response[1].has_record_span
    /\ ShownRecord(profile_response[1]) = Record(<<"2", "7", "-", "1", "-", "0">>)
    /\ IsZero(fighter_data[1])

\* every line with the label shows "--" (or no line has the label)
OnlyPlaceholders(page, label) ==
    \A i \in Labelled(page, label) :
        LineValue(page.stat_items[i], label) = Placeholder

\* no line with the label carries a number
NoNumber(page, label) ==
    \A i \in Labelled(page, label) :
        \/ LineValue(page.stat_items[i], label) = Placeholder
        \/ ~Parses(LineValue(page.stat_items[i], label), label)

\* the number of the last line with the label that carries one, else zero
LastNumber(page, label) ==
    LET with == {i \in Labelled(page, label) :
                    /\ LineValue(page.stat_items[i], label) # Placeholder
                    /\ Parses(LineValue(page.stat_items[i], label), label)}
        value == LineValue(page.stat_items[SetMax(with)], label)
    IN  IF label = StrDefLabel
        THEN (IF with = {} THEN 0 ELSE int(value).val)
        ELSE (IF with = {} THEN RZero ELSE float(value).val)

\* C9 as claimed: with a well-formed record, a missing, placeholder or
\* unparseable SLpM leaves SLpM at 0.0 and the parsed Str_Def and record
\* as they are, and the same with the two labels exchanged.
C9_PerFieldTolerance ==
    (Extracted /\ Answered) =>
        LET page == profile_response[1]
            d    == fighter_data[1]
        IN  \A f \in Stated(page) :
                /\ NoNumber(page, SLpMLabel) =>
                       /\ d.SLpM = RZero
                       /\ d.Str_Def = LastNumber(page, StrDefLabel)
                       /\ HasRecord(d, f)
                /\ NoNumber(page, StrDefLabel) =>
                       /\ d.Str_Def = 0
                       /\ d.SLpM = LastNumber(page, SLpMLabel)
                       /\ HasRecord(d, f)

\* C9 amended: with a well-formed record and no unparseable stat value, a
\* missing or placeholder SLpM leaves SLpM at 0.0 and the parsed Str_Def
\* and record as they are, and the same with the two labels exchanged; an
\* unparseable SLpM or Str. Def value gives the zero-default record.
C9_PerFieldToleranceAmended ==
    (Extracted /\ Answered) =>
        LET page == profile_response[1]
            d    == fighter_data[1]
        IN  \A f \in Stated(page) :
                IF SomeUnparseable(page)
                THEN IsZero(d)
                ELSE /\ OnlyPlaceholders(page, SLpMLabel) =>
                            /\ d.SLpM = RZero
                            /\ d.Str_Def = LastNumber(page, StrDefLabel)
                            /\ HasRecord(d, f)
                     /\ OnlyPlaceholders(page, StrDefLabel) =>
                            /\ d.Str_Def = 0
                            /\ d.SLpM = LastNumber(page, SLpMLabel)
                            /\ HasRecord(d, f)

\* a placeholder SLpM beside a Str. Def of 60% under the record 27-1-0
C9_Witness ==
    /\ Extracted
    /\ Answered
    /\ ShownRecord(profile_response[1]) = Record(<<"2", "7", "-", "1", "-", "0">>)
    /\ profile_response[1].stat_items =
           <<SLpMLine(Placeholder), StrDefLine(<<"6", "0", "%">>)>>
    /\ fighter_data[1].SLpM = RZero
    /\ fighter_data[1].Str_Def = 60
    /\ fighter_data[1].Wins = 27

-----------------------------------------------------------------------------
(* Properties of the scoring, checked under Spec                           *)

Scored == pc \in {"report", "done"}

SameStats(d1, d2) ==
    /\ d1.Wins = d2.Wins
    /\ d1.Losses = d2.Losses
    /\ d1.Draws = d2.Draws
    /\ d1.SLpM = d2.SLpM
    /\ d1.Str_Def = d2.Str_Def

\* C2: for two fully unresolved fighters, both with the all-zero record,
\* both likelihoods are 50.0 and the winner is the tie outcome.
C2_ZeroZeroIsTie ==
    ( /\ Scored
      /\ lookup[1].url = None
      /\ lookup[2].url = None
      /\ IsZero(fighter_data[1])
      /\ IsZero(fighter_data[2]) )
        => /\ calc.f1_likelihood = 5000
           /\ calc.f2_likelihood = 5000
           /\ calc.predicted_winner = PerfectTie

\* C5: whenever total_score is not 0, the winner is fighter 1 exactly when
\* its rounded likelihood is strictly greater, and fighter 2 otherwise; for
\* two fighters with identical stats both likelihoods are 50.0 and fighter 2
\* is named.
C5_WinnerRule ==
    (Scored /\ calc.total_score # RZero) =>
        /\ calc.f1_likelihood > calc.f2_likelihood
               => calc.predicted_winner = fighter_data[1].Name
        /\ ~(calc.f1_likelihood > calc.f2_likelihood)
               => calc.predicted_winner = fighter_data[2].Name
        /\ SameStats(fighter_data[1], fighter_data[2])
               => /\ calc.f1_likelihood = 5000
                  /\ calc.f2_likelihood = 5000
                  /\ calc.predicted_winner = fighter_data[2].Name

\* two differently named fighters with the same non-zero stats were scored
C5_Witness ==
    /\ pc = "done"
    /\ calc.total_score # RZero
    /\ SameStats(fighter_data[1], fighter_data[2])
    /\ fighter_data[1].Wins = 27
    /\ fighter_data[1].Name # fighter_data[2].Name
    /\ calc.predicted_winner = fighter_data[2].Name

HasStats(d, wins, losses, draws, slpm, str_def) ==
    /\ d.Wins = wins
    /\ d.Losses = losses
    /\ d.Draws = draws
    /\ d.SLpM = slpm
    /\ d.Str_Def = str_def

\* the two fighters of the end-to-end example: 27-1-0, 5.2, 60 and
\* 20-5-0, 4.0, 50
IsExample ==
    /\ HasStats(fighter_data[1], 27, 1, 0, Rat(52, 10), 60)
    /\ HasStats(fighter_data[2], 20, 5, 0, Rat(40, 10), 50)
    /\ fighter_data[1].Name # fighter_data[2].Name

\* C8 as claimed: the example gives effective strikes 2.6 and 1.6,
\* prediction scores 82.42 and 63.24, likelihoods 56.57 and 43.43 and
\* fighter 1 as winner.
C8_Example ==
    (Scored /\ IsExample) =>
        /\ calc.f1_effective_strikes = Rat(26, 10)
        /\ calc.f2_effective_strikes = Rat(16, 10)
        /\ round2(calc.f1_prediction_score) = {8242}
        /\ round2(calc.f2_prediction_score) = {6324}
        /\ calc.f1_likelihood = 5657
        /\ calc.f2_likelihood = 4343
        /\ calc.predicted_winner = fighter_data[1].Name

\* C8 amended: the example gives effective strikes 2.6 and 1.6, prediction
\* scores 82.62 and 63.24, likelihoods 56.64 and 43.36 and fighter 1 as
\* winner.
C8_ExampleAmended ==
    (Scored /\ IsExample) =>
        /\ calc.f1_effective_strikes = Rat(26, 10)
        /\ calc.f2_effective_strikes = Rat(16, 10)
        /\ round2(calc.f1_prediction_score) = {8262}
        /\ round2(calc.f2_prediction_score) = {6324}
        /\ calc.f1_likelihood = 5664
        /\ calc.f2_likelihood = 4336
        /\ calc.predicted_winner = fighter_data[1].Name

\* the example was scored and reported
C8_Witness == pc = "done" /\ IsExample /\ calc.f1_likelihood > 0

-----------------------------------------------------------------------------
(* The whole run, checked under FairSpec                                   *)

\* fighter i's get_stats_from_profile has returned
HasStatsOf(i) ==
    IF i = 1 THEN pc \in {"url2", "stats2", "score", "report", "done"}
    ELSE pc \in {"score", "report", "done"}

\* fighter i was not resolved, or its profile not fetched, or not parsed
Failed(i) ==
    \/ lookup[i].url = None
    \/ profile_response[i].status # "ok"
    \/ parse_profile(profile_response[i], display_name(i)).raised

\* the order of main's steps
StepOrder ==
    <<"input", "url1", "stats1", "url2", "stats2", "score", "report", "done">>

StepOf(p) == CHOOSE k \in DOMAIN StepOrder : StepOrder[k] = p

\* C6: whatever the names and whatever each fighter's steps run into, the
\* run never aborts, goes through its steps in order (resolve and extract
\* for fighter 1, then for fighter 2, then scoring) and reaches the final
\* report; every fighter that could not be resolved or parsed has all-zero
\* stats.
C6_RunCompletes ==
    /\ [](pc # "aborted")
    /\ [][pc' # "aborted" /\ StepOf(pc') = StepOf(pc) + 1]_vars
    /\ [](\A i \in Fighters :
              (HasStatsOf(i) /\ Failed(i)) => IsZero(fighter_data[i]))
    /\ <>(pc = "done")

\* a run reached the report with fighter 1 resolved but unparseable and
\* fighter 2 given an invalid name
C6_Witness ==
    /\ pc = "done"
    /\ lookup[1].url # None
    /\ profile_response[1].status = "ok"
    /\ parse_profile(profile_response[1], display_name(1)).raised
    /\ lookup[2].msg = "invalid_name"
    /\ IsZero(fighter_data[1])
    /\ IsZero(fighter_data[2])

====
